---- MODULE Spec2Model ----
(***************************************************************************)
(* Model of mispricing.py, the "adverse-to-zero" signal engine: the tick   *)
(* store and signal log (SQLite tables), the volatility estimator, the     *)
(* two cost models, decide(), the trailing-median reference model and the  *)
(* poll loop of main().                                                    *)
(*                                                                         *)
(* Numbers.  Prices are integers (a price unit small enough that every     *)
(* price of interest is whole).  Every fraction the program computes       *)
(* (edge, volatility, costs) is an exact rational [num, den] with den > 0  *)
(* in lowest terms, so that equality of fractions is equality of records;  *)
(* floating-point rounding is not modelled.                                *)
(***************************************************************************)
EXTENDS Integers, Sequences, FiniteSets

VARIABLES
    ticks,      \* table ticks: sequence of rows [ts, symbol, price] in rowid order
    signals,    \* table signals: sequence of rows, in rowid order
    stdout,     \* decision lines printed by main, in order (without the start line)
    clock,      \* int(time.time())
    pc,         \* position of main(): "fetch", "store", "refs", "eval", "sleep"
    ts,         \* main's ts of the running cycle
    snap,       \* main's snap: sequence of <<symbol, price>>, a dict in insertion order
    refs,       \* main's refs: function symbol -> reference price
    idx,        \* position of the running for-loop over snap.items()
    cycles,     \* completed poll cycles
    call,       \* the last call made through the API (SpecStore, SpecDecide)
    ret         \* what that call returned

vars == <<ticks, signals, stdout, clock, pc, ts, snap, refs, idx, cycles, call, ret>>

-----------------------------------------------------------------------------
(* Exact fractions *)

Abs(x) == IF x < 0 THEN -x ELSE x

RECURSIVE GCD(_, _)
GCD(a, b) == IF b = 0 THEN a ELSE GCD(b, a % b)

\* n/d in lowest terms, d > 0
Frac(n, d) ==
    LET g == GCD(Abs(n), d)
    IN  [num |-> n \div g, den |-> d \div g]

FZero == [num |-> 0, den |-> 1]
FOne == [num |-> 1, den |-> 1]
FAdd(x, y) == Frac(x.num * y.den + y.num * x.den, x.den * y.den)
FMul(x, y) == Frac(x.num * y.num, x.den * y.den)
FLess(x, y) == x.num * y.den < y.num * x.den
FLeq(x, y) == x.num * y.den <= y.num * x.den
FMax(x, y) == IF FLess(x, y) THEN y ELSE x
FMin(x, y) == IF FLess(y, x) THEN y ELSE x

\* s[i] of a sequence
Nth(s, i) == Head(SubSeq(s, i, i))

-----------------------------------------------------------------------------
(* Configuration constants *)

POLL_SECONDS == 30
HARD_MAX_LOSS_FRAC == Frac(60, 10000)
FEE_FRAC == Frac(15, 10000)
SLIPPAGE_FRAC == Frac(10, 10000)
ADVERSE_MOVE_PAD == Frac(25, 10000)
WINDOW_SECONDS == 180
ZERO_LIABILITY_GAIN == FOne
MIN_EDGE_FRAC == Frac(40, 10000)

\* limit=60 of compute_ref_prices, limit=120 of robust_vol_frac
REF_LIMIT == 60
VOL_LIMIT == 120
\* len(pts) < 15 of compute_ref_prices; len(pts) < 20, len(rets) < 10 of robust_vol_frac
REF_MIN_POINTS == 15
VOL_MIN_POINTS == 20
VOL_MIN_RETS == 10

-----------------------------------------------------------------------------
(* Persistence *)

\* The state init_db leaves when field.db does not exist yet
EmptyTable == <<>>

SameKey(r, t, symbol) == r.ts = t /\ r.symbol = symbol

\* put_tick as a plain INSERT into a table without the primary key: no row is deleted
put_tick_insert(store, t, symbol, price) ==
    Append(store, [ts |-> t, symbol |-> symbol, price |-> price])

\* INSERT OR REPLACE: the row holding the key (ts, symbol), if any, is deleted and
\* the new row is inserted
put_tick(store, t, symbol, price) ==
    LET NotKey(r) == ~SameKey(r, t, symbol)
    IN  Append(SelectSeq(store, NotKey), [ts |-> t, symbol |-> symbol, price |-> price])

\* ORDER BY ts DESC: r is inserted into rows already in order, before the first row
\* that is not later than r
RECURSIVE InsertByTsDesc(_, _, _)
InsertByTsDesc(r, sorted, i) ==
    IF i > Len(sorted) THEN Append(sorted, r)
    ELSE IF r.ts >= Nth(sorted, i).ts
    THEN SubSeq(sorted, 1, i - 1) \o <<r>> \o SubSeq(sorted, i, Len(sorted))
    ELSE InsertByTsDesc(r, sorted, i + 1)

\* The rows in order, latest first: sorted holds the first Len(sorted) of the rows
RECURSIVE OrderedByTsDesc(_, _)
OrderedByTsDesc(rows, sorted) ==
    IF Len(sorted) = Len(rows) THEN sorted
    ELSE OrderedByTsDesc(rows, InsertByTsDesc(Nth(rows, Len(sorted) + 1), sorted, 1))

OrderByTsDesc(rows) == OrderedByTsDesc(rows, <<>>)

\* LIMIT n (n >= 0)
Limit(rows, n) == SubSeq(rows, 1, IF n < Len(rows) THEN n ELSE Len(rows))

\* reversed(rows)
Reversed(rows) == [i \in 1..Len(rows) |-> Nth(rows, Len(rows) + 1 - i)]

\* recent_prices returning the rows as selected, latest first (reversed left out)
recent_prices_desc(store, symbol, limit) ==
    LET OfSymbol(r) == r.symbol = symbol
        matching == SelectSeq(store, OfSymbol)
        rows == Limit(OrderByTsDesc(matching), limit)
    IN  [i \in 1..Len(rows) |-> [ts |-> Nth(rows, i).ts, price |-> Nth(rows, i).price]]

\* SELECT ts, price FROM ticks WHERE symbol=? ORDER BY ts DESC LIMIT ?, reversed:
\* a sequence of rows [ts, price]
recent_prices(store, symbol, limit) ==
    LET OfSymbol(r) == r.symbol = symbol
        matching == SelectSeq(store, OfSymbol)
        rows == Limit(OrderByTsDesc(matching), limit)
    IN  Reversed([i \in 1..Len(rows) |-> [ts |-> Nth(rows, i).ts, price |-> Nth(rows, i).price]])

\* INSERT INTO signals
log_signal(log, t, symbol, action, e, cost_zero, cost_act, reason) ==
    Append(log, [ts |-> t, symbol |-> symbol, action |-> action, edge |-> e,
                 cost_zero |-> cost_zero, cost_act |-> cost_act, reason |-> reason])

-----------------------------------------------------------------------------
(* Opportunity *)

Opportunity(symbol, price, ref_price, side) ==
    [symbol |-> symbol, price |-> price, ref_price |-> ref_price, side |-> side]

edge(opp) ==
    IF opp.ref_price <= 0 THEN FZero
    ELSE IF opp.side = "BUY" THEN Frac(opp.ref_price - opp.price, opp.ref_price)
    ELSE Frac(opp.price - opp.ref_price, opp.ref_price)

-----------------------------------------------------------------------------
(* Robust volatility estimate *)

\* One entry of rets.  The program stores abs(math.log(p1 / p0)) and later takes
\* math.exp(med) - 1.0 of the entry it picks; the model stores exp(x) - 1 of each
\* entry x at once, which is (hi - lo) / lo for hi, lo the larger and smaller of the
\* two prices.  x |-> exp(x) - 1 is strictly increasing, so the sort order and the
\* entry picked are those of the program.
AbsReturn(p0, p1) ==
    IF p1 >= p0 THEN Frac(p1 - p0, p0) ELSE Frac(p0 - p1, p1)

\* for i in range(1, len(pts)): the pairs (p0, p1) of successive prices, those with
\* a non-positive price skipped
Returns(pts) ==
    LET pairs == [i \in 1..(Len(pts) - 1) |->
                     [p0 |-> Nth(pts, i).price, p1 |-> Nth(pts, i + 1).price]]
        Positive(pair) == pair.p0 > 0 /\ pair.p1 > 0
        kept == IF Len(pts) < 2 THEN <<>> ELSE SelectSeq(pairs, Positive)
    IN  [i \in 1..Len(kept) |-> AbsReturn(Nth(kept, i).p0, Nth(kept, i).p1)]

\* rets.sort(): ascending; x is inserted into entries already in order
RECURSIVE InsertFrac(_, _, _)
InsertFrac(x, sorted, i) ==
    IF i > Len(sorted) THEN Append(sorted, x)
    ELSE IF FLeq(x, Nth(sorted, i))
    THEN SubSeq(sorted, 1, i - 1) \o <<x>> \o SubSeq(sorted, i, Len(sorted))
    ELSE InsertFrac(x, sorted, i + 1)

\* sorted holds the first Len(sorted) entries of s
RECURSIVE SortedFracs(_, _)
SortedFracs(s, sorted) ==
    IF Len(sorted) = Len(s) THEN sorted
    ELSE SortedFracs(s, InsertFrac(Nth(s, Len(sorted) + 1), sorted, 1))

SortFracs(s) == SortedFracs(s, <<>>)

robust_vol_frac(store, symbol) ==
    LET pts == recent_prices(store, symbol, VOL_LIMIT)
        rets == SortFracs(Returns(pts))
    IN  IF Len(pts) < VOL_MIN_POINTS THEN FZero
        ELSE IF Len(rets) < VOL_MIN_RETS THEN FZero
        ELSE FMax(FZero, Nth(rets, (Len(rets) \div 2) + 1))

-----------------------------------------------------------------------------
(* Adverse-to-zero decision rule *)

worst_cost_of_action(store, symbol) ==
    LET vol == robust_vol_frac(store, symbol)
        adverse == FMax(ADVERSE_MOVE_PAD, FMul(Frac(2, 1), vol))
    IN  FAdd(FAdd(FEE_FRAC, SLIPPAGE_FRAC), adverse)

\* worst_cost_of_inaction with abs(opp.edge()) in place of max(0.0, opp.edge())
worst_cost_of_inaction_abs(opp) ==
    LET e == IF FLess(edge(opp), FZero) THEN FMul(Frac(-1, 1), edge(opp)) ELSE edge(opp)
        window == IF WINDOW_SECONDS > 1 THEN WINDOW_SECONDS ELSE 1
        decay_penalty == FMin(FOne, Frac(POLL_SECONDS, window))
    IN  FMul(FMul(ZERO_LIABILITY_GAIN, e), FAdd(FOne, decay_penalty))

worst_cost_of_inaction(opp) ==
    LET e == FMax(FZero, edge(opp))
        window == IF WINDOW_SECONDS > 1 THEN WINDOW_SECONDS ELSE 1
        decay_penalty == FMin(FOne, Frac(POLL_SECONDS, window))
    IN  FMul(FMul(ZERO_LIABILITY_GAIN, e), FAdd(FOne, decay_penalty))

Decision(action, cost_zero, cost_act, reason) ==
    [action |-> action, cost_zero |-> cost_zero, cost_act |-> cost_act, reason |-> reason]

\* decide without the hard safety bound
decide_no_hard_bound(store, opp) ==
    LET e == edge(opp)
        cost_act == worst_cost_of_action(store, opp.symbol)
        cost_zero == worst_cost_of_inaction(opp)
    IN  IF FLess(e, MIN_EDGE_FRAC)
        THEN Decision("FLAT", FZero, FZero, "edge<0.0040")
        ELSE IF FLess(cost_act, cost_zero)
        THEN Decision(opp.side, cost_zero, cost_act, "escape_zero(cost_zero>cost_act)")
        ELSE Decision("FLAT", cost_zero, cost_act, "stay_zero(cost_zero<=cost_act)")

\* decide with the hard safety bound checked before the edge gate
decide_bound_first(store, opp) ==
    LET e == edge(opp)
        cost_act == worst_cost_of_action(store, opp.symbol)
        cost_zero == worst_cost_of_inaction(opp)
    IN  IF FLess(HARD_MAX_LOSS_FRAC, cost_act)
        THEN Decision("FLAT", FZero, cost_act, "cost_act>0.0060 (hard bound)")
        ELSE IF FLess(e, MIN_EDGE_FRAC)
        THEN Decision("FLAT", FZero, FZero, "edge<0.0040")
        ELSE IF FLess(cost_act, cost_zero)
        THEN Decision(opp.side, cost_zero, cost_act, "escape_zero(cost_zero>cost_act)")
        ELSE Decision("FLAT", cost_zero, cost_act, "stay_zero(cost_zero<=cost_act)")

\* decide acting on equal costs (cost_zero >= cost_act)
decide_ties_act(store, opp) ==
    LET e == edge(opp)
        cost_act == worst_cost_of_action(store, opp.symbol)
        cost_zero == worst_cost_of_inaction(opp)
    IN  IF FLess(e, MIN_EDGE_FRAC)
        THEN Decision("FLAT", FZero, FZero, "edge<0.0040")
        ELSE IF FLess(HARD_MAX_LOSS_FRAC, cost_act)
        THEN Decision("FLAT", FZero, cost_act, "cost_act>0.0060 (hard bound)")
        ELSE IF FLeq(cost_act, cost_zero)
        THEN Decision(opp.side, cost_zero, cost_act, "escape_zero(cost_zero>cost_act)")
        ELSE Decision("FLAT", cost_zero, cost_act, "stay_zero(cost_zero<=cost_act)")

decide(store, opp) ==
    LET e == edge(opp)
        cost_act == worst_cost_of_action(store, opp.symbol)
        cost_zero == worst_cost_of_inaction(opp)
    IN  IF FLess(e, MIN_EDGE_FRAC)
        THEN Decision("FLAT", FZero, FZero, "edge<0.0040")
        ELSE IF FLess(HARD_MAX_LOSS_FRAC, cost_act)
        THEN Decision("FLAT", FZero, cost_act, "cost_act>0.0060 (hard bound)")
        ELSE IF FLess(cost_act, cost_zero)
        THEN Decision(opp.side, cost_zero, cost_act, "escape_zero(cost_zero>cost_act)")
        ELSE Decision("FLAT", cost_zero, cost_act, "stay_zero(cost_zero<=cost_act)")

-----------------------------------------------------------------------------
(* Reference price model *)

\* vals.sort(): ascending; x is inserted into entries already in order
RECURSIVE InsertInt(_, _, _)
InsertInt(x, sorted, i) ==
    IF i > Len(sorted) THEN Append(sorted, x)
    ELSE IF x <= Nth(sorted, i)
    THEN SubSeq(sorted, 1, i - 1) \o <<x>> \o SubSeq(sorted, i, Len(sorted))
    ELSE InsertInt(x, sorted, i + 1)

\* sorted holds the first Len(sorted) entries of s
RECURSIVE SortedInts(_, _)
SortedInts(s, sorted) ==
    IF Len(sorted) = Len(s) THEN sorted
    ELSE SortedInts(s, InsertInt(Nth(s, Len(sorted) + 1), sorted, 1))

SortInts(s) == SortedInts(s, <<>>)

\* RefPrice taking the median from 10 points on
RefPrice_min10(store, sym, px) ==
    LET pts == recent_prices(store, sym, REF_LIMIT)
        vals == SortInts([i \in 1..Len(pts) |-> Nth(pts, i).price])
    IN  IF Len(pts) < 10 THEN px
        ELSE Nth(vals, (Len(vals) \div 2) + 1)

\* The body of the loop of compute_ref_prices for one item (sym, px) of the snapshot
RefPrice(store, sym, px) ==
    LET pts == recent_prices(store, sym, REF_LIMIT)
        vals == SortInts([i \in 1..Len(pts) |-> Nth(pts, i).price])
    IN  IF Len(pts) < REF_MIN_POINTS THEN px
        ELSE Nth(vals, (Len(vals) \div 2) + 1)

\* The keys of a snapshot and the price of one
Keys(snapshot) == {snapshot[i][1] : i \in 1..Len(snapshot)}
PriceOf(snapshot, sym) ==
    snapshot[CHOOSE i \in 1..Len(snapshot) : snapshot[i][1] = sym][2]

compute_ref_prices(store, snapshot) ==
    [sym \in Keys(snapshot) |-> RefPrice(store, sym, PriceOf(snapshot, sym))]

-----------------------------------------------------------------------------
(* The loops of main(), one item (sym, px) of the snapshot at a time *)

\* if px > 0: put_tick(ts, sym, px)
StoreItem(store, t, sym, px) == IF px > 0 THEN put_tick(store, t, sym, px) ELSE store

\* The side main gives the opportunity of (px, ref)
SideOf(px, ref) == IF px < ref THEN "BUY" ELSE IF px > ref THEN "SELL" ELSE "FLAT"

\* The items the evaluation loop passes over: the two continue statements
Skipped(px, ref) == ref <= 0 \/ px <= 0 \/ SideOf(px, ref) = "FLAT"

\* action, cost_zero, cost_act, reason = decide(opp); log_signal(...)
LogItem(log, store, t, sym, px, ref) ==
    LET opp == Opportunity(sym, px, ref, SideOf(px, ref))
        d == decide(store, opp)
    IN  IF Skipped(px, ref) THEN log
        ELSE log_signal(log, t, sym, d.action, edge(opp), d.cost_zero, d.cost_act, d.reason)

\* The line main prints for a decision other than FLAT
Line(t, sym, action) == [ts |-> t, symbol |-> sym, action |-> action]

\* if action != "FLAT": print(...)
PrintItem(out, store, t, sym, px, ref) ==
    LET d == decide(store, Opportunity(sym, px, ref, SideOf(px, ref)))
    IN  IF Skipped(px, ref) \/ d.action = "FLAT" THEN out
        ELSE Append(out, Line(t, sym, d.action))

-----------------------------------------------------------------------------
(* Bounds of the model *)

\* Poll cycles main() runs
MaxCycles == 2
\* Poll cycles that ran before the modelled run started (field.db persists)
MaxHist == 20

Symbols == {"A", "B"}

\* Snapshots fetch_market_snapshot may return: the empty one (no prices.json), one
\* symbol, both symbols in either order; a price of 0 is an invalid price
SnapSet ==
    { <<>>,
      <<<<"A", 3484>>>>,
      <<<<"A", 3500>>>>,
      <<<<"A", 3520>>, <<"B", 690>>>>,
      <<<<"A", 3490>>, <<"B", 700>>>>,
      <<<<"A", 3484>>, <<"B", 0>>>>,
      <<<<"B", 690>>, <<"A", 0>>>> }

\* Price histories of earlier runs: the prices a symbol had in successive cycles,
\* repeated cyclically
Patterns(sym) ==
    IF sym = "A" THEN {<<3500>>, <<3500, 3506>>, <<3500, 3507>>} ELSE {<<700>>}

\* Numbers of earlier cycles a symbol was part of
HistLens == {0} \cup ((MaxHist - 8)..MaxHist)

-----------------------------------------------------------------------------
(* The tables earlier runs of main() left behind in field.db *)

PatternPrice(pat, j) == pat[((j - 1) % Len(pat)) + 1]

\* The snapshot of earlier cycle j: a symbol with n ticks was part of the last n of
\* the MaxHist earlier cycles
PastSnapshot(j, nA, patA, nB, patB) ==
    (IF j > MaxHist - nA THEN <<<<"A", PatternPrice(patA, j)>>>> ELSE <<>>)
    \o (IF j > MaxHist - nB THEN <<<<"B", PatternPrice(patB, j)>>>> ELSE <<>>)

\* The two loops of main() over a snapshot, from item k on
RECURSIVE StoreAll(_, _, _, _)
StoreAll(store, t, snapshot, k) ==
    IF k > Len(snapshot) THEN store
    ELSE StoreAll(StoreItem(store, t, Nth(snapshot, k)[1], Nth(snapshot, k)[2]),
                  t, snapshot, k + 1)

RECURSIVE LogAll(_, _, _, _, _, _)
LogAll(log, store, t, snapshot, rf, k) ==
    IF k > Len(snapshot) THEN log
    ELSE LogAll(LogItem(log, store, t, Nth(snapshot, k)[1], Nth(snapshot, k)[2],
                        rf[Nth(snapshot, k)[1]]),
                store, t, snapshot, rf, k + 1)

\* One earlier cycle of main(), POLL_SECONDS after the one before: the tables after it
PastCycle(tables, nA, patA, nB, patB) ==
    LET t == tables.ts + POLL_SECONDS
        snapshot == PastSnapshot(t \div POLL_SECONDS, nA, patA, nB, patB)
        written == StoreAll(tables.ticks, t, snapshot, 1)
    IN  [ts |-> t,
         ticks |-> written,
         signals |-> LogAll(tables.signals, written, t, snapshot,
                            compute_ref_prices(written, snapshot), 1)]

\* The tables after the MaxHist earlier cycles, at times POLL_SECONDS,
\* 2 * POLL_SECONDS, ...
RECURSIVE PastRun(_, _, _, _, _)
PastRun(tables, nA, patA, nB, patB) ==
    IF tables.ts = MaxHist * POLL_SECONDS THEN tables
    ELSE PastRun(PastCycle(tables, nA, patA, nB, patB), nA, patA, nB, patB)

\* The tables a restart of main() finds
PastTables ==
    { PastRun([ts |-> 0, ticks |-> EmptyTable, signals |-> EmptyTable], n, patA, n, patB) :
        n \in HistLens, patA \in Patterns("A"), patB \in Patterns("B") }

\* No call made yet; puts counts the put_tick calls made so far
NoCall == [op |-> "none", puts |-> 0]
NoRefs == [sym \in {} |-> 0]

-----------------------------------------------------------------------------
(* main(): the poll loop *)

Init ==
    /\ \E past \in PastTables :
          /\ ticks = past.ticks
          /\ signals = past.signals
    /\ stdout = <<>>
    /\ clock = (MaxHist + 1) * POLL_SECONDS
    /\ pc = "fetch"
    /\ ts = 0
    /\ snap = <<>>
    /\ refs = NoRefs
    /\ idx = 0
    /\ cycles = 0
    /\ call = NoCall
    /\ ret = NoCall

\* ts = int(time.time()); snap = fetch_market_snapshot(); if not snap: ... continue
Fetch ==
    /\ pc = "fetch"
    /\ cycles < MaxCycles
    /\ ts' = clock
    /\ \E s \in SnapSet : snap' = s
    /\ pc' = IF snap' = <<>> THEN "sleep" ELSE "store"
    /\ idx' = 1
    /\ UNCHANGED <<ticks, signals, stdout, clock, refs, cycles, call, ret>>

\* StoreTick leaving the loop after the first item of the snapshot
StoreTick_first_only ==
    /\ pc = "store"
    /\ ticks' = StoreItem(ticks, ts, snap[idx][1], snap[idx][2])
    /\ idx' = 1
    /\ pc' = "refs"
    /\ UNCHANGED <<signals, stdout, clock, ts, snap, refs, cycles, call, ret>>

\* One iteration of: for sym, px in snap.items(): if px > 0: put_tick(ts, sym, px)
StoreTick ==
    /\ pc = "store"
    /\ ticks' = StoreItem(ticks, ts, snap[idx][1], snap[idx][2])
    /\ idx' = IF idx = Len(snap) THEN 1 ELSE idx + 1
    /\ pc' = IF idx = Len(snap) THEN "refs" ELSE "store"
    /\ UNCHANGED <<signals, stdout, clock, ts, snap, refs, cycles, call, ret>>

\* refs = compute_ref_prices(snap)
ComputeRefs ==
    /\ pc = "refs"
    /\ refs' = compute_ref_prices(ticks, snap)
    /\ pc' = "eval"
    /\ idx' = 1
    /\ UNCHANGED <<ticks, signals, stdout, clock, ts, snap, cycles, call, ret>>

\* Evaluate logging only the decisions it prints (log_signal under action != "FLAT")
Evaluate_log_acted ==
    /\ pc = "eval"
    /\ LET sym == snap[idx][1]
           px == snap[idx][2]
           printed == PrintItem(stdout, ticks, ts, sym, px, refs[sym])
       IN  /\ stdout' = printed
           /\ signals' = IF printed = stdout THEN signals
                         ELSE LogItem(signals, ticks, ts, sym, px, refs[sym])
    /\ idx' = IF idx = Len(snap) THEN 1 ELSE idx + 1
    /\ pc' = IF idx = Len(snap) THEN "sleep" ELSE "eval"
    /\ UNCHANGED <<ticks, clock, ts, snap, refs, cycles, call, ret>>

\* One iteration of the loop that evaluates the opportunities
Evaluate ==
    /\ pc = "eval"
    /\ LET sym == snap[idx][1]
           px == snap[idx][2]
       IN  /\ stdout' = PrintItem(stdout, ticks, ts, sym, px, refs[sym])
           /\ signals' = LogItem(signals, ticks, ts, sym, px, refs[sym])
    /\ idx' = IF idx = Len(snap) THEN 1 ELSE idx + 1
    /\ pc' = IF idx = Len(snap) THEN "sleep" ELSE "eval"
    /\ UNCHANGED <<ticks, clock, ts, snap, refs, cycles, call, ret>>

\* time.sleep(POLL_SECONDS): the next cycle starts POLL_SECONDS later
Sleep ==
    /\ pc = "sleep"
    /\ clock' = clock + POLL_SECONDS
    /\ cycles' = cycles + 1
    /\ pc' = "fetch"
    /\ UNCHANGED <<ticks, signals, stdout, ts, snap, refs, idx, call, ret>>

Next == Fetch \/ StoreTick \/ ComputeRefs \/ Evaluate \/ Sleep

Spec == Init /\ [][Next]_vars

-----------------------------------------------------------------------------
(* The tick store used through its two functions, from an empty table *)

\* put_tick calls made
MaxPuts == 3
\* Largest limit passed to recent_prices
MaxLimit == 2

PutTs == {POLL_SECONDS, 2 * POLL_SECONDS, 3 * POLL_SECONDS}
PutPrices == {3484, 3500}

InitStore ==
    /\ ticks = EmptyTable
    /\ signals = EmptyTable
    /\ stdout = <<>>
    /\ clock = 0
    /\ pc = "api"
    /\ ts = 0
    /\ snap = <<>>
    /\ refs = NoRefs
    /\ idx = 0
    /\ cycles = 0
    /\ call = NoCall
    /\ ret = NoCall

PutTick(t, symbol, price) ==
    /\ pc = "api"
    /\ call.puts < MaxPuts
    /\ ticks' = put_tick(ticks, t, symbol, price)
    /\ call' = [op |-> "put_tick", ts |-> t, symbol |-> symbol, price |-> price,
                puts |-> call.puts + 1]
    /\ ret' = NoCall
    /\ UNCHANGED <<signals, stdout, clock, pc, ts, snap, refs, idx, cycles>>

RecentPrices(symbol, limit) ==
    /\ pc = "api"
    /\ call' = [op |-> "recent_prices", symbol |-> symbol, limit |-> limit,
                puts |-> call.puts]
    /\ ret' = recent_prices(ticks, symbol, limit)
    /\ UNCHANGED <<ticks, signals, stdout, clock, pc, ts, snap, refs, idx, cycles>>

NextStore ==
    \/ \E t \in PutTs, symbol \in Symbols, price \in PutPrices : PutTick(t, symbol, price)
    \/ \E symbol \in Symbols, limit \in 0..MaxLimit : RecentPrices(symbol, limit)

SpecStore == InitStore /\ [][NextStore]_vars

-----------------------------------------------------------------------------
(* decide() applied to any opportunity, over the tick tables earlier runs left *)

OppPrices == {1750, 3484, 3485, 3486, 3487, 3500, 3513, 3514, 3515, 3516, 7000}
OppRefs == {0, 3500}
OppSet ==
    {Opportunity(symbol, price, ref_price, side) :
        symbol \in Symbols, price \in OppPrices, ref_price \in OppRefs,
        side \in {"BUY", "SELL"}}

InitDecide ==
    /\ \E past \in PastTables :
          /\ ticks = past.ticks
          /\ signals = past.signals
    /\ stdout = <<>>
    /\ clock = (MaxHist + 1) * POLL_SECONDS
    /\ pc = "api"
    /\ ts = 0
    /\ snap = <<>>
    /\ refs = NoRefs
    /\ idx = 0
    /\ cycles = 0
    /\ call = NoCall
    /\ ret = NoCall

\* decide is a function of the table and the opportunity: one call per behaviour
Decide(opp) ==
    /\ pc = "api"
    /\ call = NoCall
    /\ call' = [op |-> "decide", opp |-> opp, puts |-> 0]
    /\ ret' = decide(ticks, opp)
    /\ UNCHANGED <<ticks, signals, stdout, clock, pc, ts, snap, refs, idx, cycles>>

NextDecide == \E opp \in OppSet : Decide(opp)

SpecDecide == InitDecide /\ [][NextDecide]_vars

-----------------------------------------------------------------------------
(* Properties of decide() *)

Sides == {"BUY", "SELL"}
HardBoundReason == "cost_act>0.0060 (hard bound)"

\* C1: whenever worst_cost_of_action of a symbol exceeds HARD_MAX_LOSS_FRAC, decide
\* returns FLAT for every opportunity on it, however large its edge; and no row of
\* the signal log with action BUY or SELL has cost_act above HARD_MAX_LOSS_FRAC.
C1_HardBound ==
    /\ \A symbol \in Symbols :
          FLess(HARD_MAX_LOSS_FRAC, worst_cost_of_action(ticks, symbol))
          => \A opp \in OppSet :
                opp.symbol = symbol => decide(ticks, opp).action = "FLAT"
    /\ \A i \in 1..Len(signals) :
          signals[i].action \in Sides => FLeq(signals[i].cost_act, HARD_MAX_LOSS_FRAC)

\* main logged a decision that the hard bound turned to FLAT, its edge above the
\* threshold, and a BUY or SELL as well
C1_Witness ==
    /\ \E i \in 1..Len(signals) :
          /\ signals[i].action = "FLAT"
          /\ signals[i].reason = HardBoundReason
          /\ FLess(HARD_MAX_LOSS_FRAC, signals[i].cost_act)
          /\ FLeq(MIN_EDGE_FRAC, signals[i].edge)
    /\ \E i \in 1..Len(signals) : signals[i].action \in Sides

\* C2: decide on an opportunity whose edge is below MIN_EDGE_FRAC (zero and negative
\* edges too) returns FLAT with cost_zero = 0 and cost_act = 0, whatever the ticks.
C2_EdgeGate ==
    (call.op = "decide" /\ FLess(edge(call.opp), MIN_EDGE_FRAC))
    => /\ ret.action = "FLAT"
       /\ ret.cost_zero = FZero
       /\ ret.cost_act = FZero

\* decide ran on a negative edge for a symbol whose cost of action is above the
\* hard bound
C2_Witness ==
    /\ call.op = "decide"
    /\ FLess(edge(call.opp), FZero)
    /\ FLess(HARD_MAX_LOSS_FRAC, worst_cost_of_action(ticks, call.opp.symbol))
    /\ ret.action = "FLAT"

\* C3: with edge >= MIN_EDGE_FRAC and cost_act <= HARD_MAX_LOSS_FRAC, decide returns
\* the opportunity's side exactly when cost_zero > cost_act, and FLAT otherwise
\* (equal costs: FLAT).
C3_Comparison ==
    (/\ call.op = "decide"
     /\ FLeq(MIN_EDGE_FRAC, edge(call.opp))
     /\ FLeq(worst_cost_of_action(ticks, call.opp.symbol), HARD_MAX_LOSS_FRAC))
    => LET cost_act == worst_cost_of_action(ticks, call.opp.symbol)
           cost_zero == worst_cost_of_inaction(call.opp)
       IN  /\ ret.action = call.opp.side <=> FLess(cost_act, cost_zero)
           /\ ~FLess(cost_act, cost_zero) => ret.action = "FLAT"
           /\ ret.action \in {call.opp.side, "FLAT"}

\* decide ran on an opportunity whose two costs are equal, and returned FLAT
C3_Witness ==
    /\ call.op = "decide"
    /\ FLeq(MIN_EDGE_FRAC, edge(call.opp))
    /\ worst_cost_of_inaction(call.opp) = worst_cost_of_action(ticks, call.opp.symbol)
    /\ ret.action = "FLAT"
    /\ ret.cost_zero = ret.cost_act

\* C4: for the opportunity decided and any other on the same symbol and side with
\* an edge at least as large, over the same ticks, the cost of inaction of the
\* other is at least as large, and if decide returned the side for the first it
\* returns the side for the other.
C4_Monotone ==
    call.op = "decide"
    => \A o2 \in OppSet :
          (/\ o2.symbol = call.opp.symbol
           /\ o2.side = call.opp.side
           /\ FLeq(edge(call.opp), edge(o2)))
          => /\ FLeq(worst_cost_of_inaction(call.opp), worst_cost_of_inaction(o2))
             /\ ret.action = call.opp.side => decide(ticks, o2).action = o2.side

\* decide returned the side of an opportunity, and one with a strictly larger edge
\* on the same symbol and side exists
C4_Witness ==
    /\ call.op = "decide"
    /\ ret.action = call.opp.side
    /\ \E o2 \in OppSet :
          /\ o2.symbol = call.opp.symbol
          /\ o2.side = call.opp.side
          /\ FLess(edge(call.opp), edge(o2))

-----------------------------------------------------------------------------
(* Properties of the poll loop *)

SnapSym(k) == snap[k][1]
SnapPx(k) == snap[k][2]

\* Rows of the tick table of one symbol, and their number
TicksOf(symbol) == {ticks[i] : i \in {j \in 1..Len(ticks) : ticks[j].symbol = symbol}}
NumTicks(symbol) == Cardinality({i \in 1..Len(ticks) : ticks[i].symbol = symbol})

\* Rows of the signal log of the running cycle for one symbol
SignalsAt(t, symbol) == {i \in 1..Len(signals) : signals[i].ts = t /\ signals[i].symbol = symbol}

\* Every positive price of the snapshot is in the tick table under the cycle's ts
AllTicksWritten ==
    \A k \in 1..Len(snap) :
        SnapPx(k) > 0
        => \E i \in 1..Len(ticks) :
              ticks[i] = [ts |-> ts, symbol |-> SnapSym(k), price |-> SnapPx(k)]

\* C7: in a cycle with a non-empty snapshot, every tick of the snapshot is written
\* before any reference price is computed, every reference price is computed (from
\* the table holding all of them) before any decision is made or logged, the
\* history the reference model reads for a symbol ends with the tick just written,
\* and the table holds no tick later than the cycle's ts.
C7_CycleOrder ==
    /\ pc \in {"store", "refs"} => \A k \in 1..Len(snap) : SignalsAt(ts, SnapSym(k)) = {}
    /\ pc \in {"refs", "eval"} =>
          /\ AllTicksWritten
          /\ \A k \in 1..Len(snap) :
                SnapPx(k) > 0
                => LET pts == recent_prices(ticks, SnapSym(k), REF_LIMIT)
                   IN  /\ pts # <<>>
                       /\ Nth(pts, Len(pts)) = [ts |-> ts, price |-> SnapPx(k)]
    /\ pc = "eval" => refs = compute_ref_prices(ticks, snap)
    /\ pc # "fetch" => \A i \in 1..Len(ticks) : ticks[i].ts <= ts

\* The second cycle evaluates the second symbol of a snapshot of two valid prices,
\* the first symbol's decision logged
C7_Witness ==
    /\ pc = "eval"
    /\ cycles = 1
    /\ Len(snap) = 2
    /\ idx = 2
    /\ SnapPx(1) > 0
    /\ SnapPx(2) > 0
    /\ SignalsAt(ts, SnapSym(1)) # {}

\* Whether main calls decide for item k of the snapshot, and the row it then logs
Decided(k) ==
    /\ refs[SnapSym(k)] > 0
    /\ SnapPx(k) > 0
    /\ SnapPx(k) # refs[SnapSym(k)]
DecidedRow(k) ==
    LET opp == Opportunity(SnapSym(k), SnapPx(k), refs[SnapSym(k)],
                           IF SnapPx(k) < refs[SnapSym(k)] THEN "BUY" ELSE "SELL")
        d == decide(ticks, opp)
    IN  [ts |-> ts, symbol |-> SnapSym(k), action |-> d.action, edge |-> edge(opp),
         cost_zero |-> d.cost_zero, cost_act |-> d.cost_act, reason |-> d.reason]

\* Items of the snapshot the evaluation loop is done with
Evaluated ==
    IF pc = "eval" THEN 1..(idx - 1)
    ELSE IF pc = "sleep" THEN 1..Len(snap)
    ELSE {}

SignalLogComplete ==
    \A k \in Evaluated :
        IF Decided(k)
        THEN /\ Cardinality(SignalsAt(ts, SnapSym(k))) = 1
             /\ \A i \in SignalsAt(ts, SnapSym(k)) : signals[i] = DecidedRow(k)
        ELSE SignalsAt(ts, SnapSym(k)) = {}

SignalLogAppendOnly ==
    /\ Len(signals') >= Len(signals)
    /\ SubSeq(signals', 1, Len(signals)) = signals

\* C8: every decision decide returns in a cycle (FLAT too) is in the signal log as
\* exactly one row for (ts, symbol), with the action, costs and reason returned;
\* and every step leaves the rows already in the log as they are.
C8_SignalLog == []SignalLogComplete /\ [][SignalLogAppendOnly]_vars

\* After two cycles the log holds a FLAT row and a BUY or SELL row of different
\* cycles
C8_Witness ==
    /\ pc = "sleep"
    /\ \E i, j \in 1..Len(signals) :
          /\ signals[i].action = "FLAT"
          /\ signals[j].action \in Sides
          /\ signals[i].ts # signals[j].ts

\* C9: for a symbol with fewer than 20 ticks robust_vol_frac is 0 and the cost of
\* action is fee + slippage + fixed pad; for a symbol of the snapshot with fewer
\* than 15 ticks the reference price is the snapshot price and the cycle logs no
\* signal for it (no BUY, no SELL).
C9_Degradation ==
    /\ \A symbol \in Symbols :
          NumTicks(symbol) < 20
          => /\ robust_vol_frac(ticks, symbol) = FZero
             /\ worst_cost_of_action(ticks, symbol)
                   = FAdd(FAdd(FEE_FRAC, SLIPPAGE_FRAC), ADVERSE_MOVE_PAD)
    /\ pc \in {"eval", "sleep"} =>
          \A k \in 1..Len(snap) :
              NumTicks(SnapSym(k)) < 15
              => /\ refs[SnapSym(k)] = SnapPx(k)
                 /\ SignalsAt(ts, SnapSym(k)) = {}

\* A cycle ended in which a symbol with 14 ticks, the earlier ones alternating
\* between 3500 and 3507, had the snapshot price 3484
C9_Witness ==
    /\ pc = "sleep"
    /\ \E k \in 1..Len(snap) :
          /\ SnapPx(k) = 3484
          /\ NumTicks(SnapSym(k)) = 14
          /\ \E r \in TicksOf(SnapSym(k)) : r.price = 3500
          /\ \E r \in TicksOf(SnapSym(k)) : r.price = 3507
          /\ refs[SnapSym(k)] = 3484

\* C10: for a symbol of the snapshot with at least 15 ticks, the reference price is
\* the median of the prices of its up-to-60 most recent ticks: the middle one of an
\* odd number, the mean of the two middle ones of an even number.
C10_RefIsMedian ==
    pc = "eval" =>
        \A k \in 1..Len(snap) :
            LET pts == recent_prices(ticks, SnapSym(k), 60)
                n == Len(pts)
                vals == SortInts([i \in 1..n |-> Nth(pts, i).price])
            IN  n >= 15
                => IF n % 2 = 1
                   THEN refs[SnapSym(k)] = Nth(vals, (n + 1) \div 2)
                   ELSE 2 * refs[SnapSym(k)] = Nth(vals, n \div 2) + Nth(vals, (n \div 2) + 1)

-----------------------------------------------------------------------------
(* Properties of the tick store *)

Rows(store) == {store[i] : i \in 1..Len(store)}
RowsAt(store, t, symbol) == {i \in 1..Len(store) : SameKey(store[i], t, symbol)}
OtherRows(store, t, symbol) == {r \in Rows(store) : ~SameKey(r, t, symbol)}

UniqueKeys ==
    \A i, j \in 1..Len(ticks) :
        i # j => ~SameKey(ticks[i], ticks[j].ts, ticks[j].symbol)

\* What a step that is a put_tick call does to the table
PutEffect ==
    call'.op = "put_tick" =>
        LET written == [ts |-> call'.ts, symbol |-> call'.symbol, price |-> call'.price]
        IN  /\ Cardinality(RowsAt(ticks', call'.ts, call'.symbol)) = 1
            /\ written \in Rows(ticks')
            /\ OtherRows(ticks', call'.ts, call'.symbol)
                  = OtherRows(ticks, call'.ts, call'.symbol)
            /\ written \in Rows(ticks)
                  => Rows(ticks') = Rows(ticks) /\ Len(ticks') = Len(ticks)

\* A step that is no put_tick call leaves every row as it is
KeepEffect == call'.op # "put_tick" => ticks' = ticks

\* C5: the tick table never holds two rows of one (ts, symbol) key; a put_tick
\* leaves exactly one row of its key, holding the price written, and the rows of
\* other keys as they were; writing a (ts, symbol, price) the table holds leaves
\* the same rows; no other step changes a row, so the row of a key holds the
\* price of the last put_tick made for it.
C5_IdempotentPut == []UniqueKeys /\ [][PutEffect /\ KeepEffect]_vars

\* Three put_tick calls were made for one key
C5_Witness ==
    /\ call.op = "put_tick"
    /\ call.puts = 3
    /\ Len(ticks) = 1
    /\ ticks[1] = [ts |-> call.ts, symbol |-> call.symbol, price |-> call.price]

RecentPricesResult ==
    call.op = "recent_prices" =>
        LET stored == TicksOf(call.symbol)
            n == Cardinality(stored)
            m == IF call.limit < n THEN call.limit ELSE n
            Returned(r) == \E i \in 1..Len(ret) : ret[i].ts = r.ts
        IN  /\ Len(ret) = m
            /\ \A i \in 1..Len(ret) :
                  [ts |-> ret[i].ts, symbol |-> call.symbol, price |-> ret[i].price] \in stored
            /\ \A i \in 1..(Len(ret) - 1) : ret[i].ts < ret[i + 1].ts
            /\ \A r \in stored :
                  ~Returned(r) => \A i \in 1..Len(ret) : r.ts < ret[i].ts
            /\ n = 0 => ret = <<>>

RecentPricesReadOnly == call'.op = "recent_prices" => ticks' = ticks

\* C6: recent_prices(symbol, limit) returns min(limit, n) ticks of the symbol, n
\* the number it has in the table: those with the largest timestamps, in strictly
\* ascending order of timestamp, none of another symbol; the empty sequence for a
\* symbol without ticks; and the call leaves the table as it is.
C6_RecentPrices == []RecentPricesResult /\ [][RecentPricesReadOnly]_vars

\* recent_prices with limit 2 returned two of the three ticks of a symbol
C6_Witness ==
    /\ call.op = "recent_prices"
    /\ call.limit = 2
    /\ NumTicks(call.symbol) = 3
    /\ Len(ret) = 2

====
